---- MODULE Spec2Model ----
(***************************************************************************)
(* Model of backend.py: the sensors table, the events table, the           *)
(* risk_assessments table, the ConnectionManager (manager.active) and the  *)
(* request handlers manual_trigger, reset_sensor, get_events and           *)
(* save_assessment.  A handler runs as an asyncio                          *)
(* coroutine: it runs atomically from one await to the next, and other     *)
(* coroutines run while it is suspended in an await.  Each action below is *)
(* one such atomic piece.                                                  *)
(***************************************************************************)
EXTENDS Integers, Sequences, FiniteSets, TLC

VARIABLES sensors, events, risk_assessments, active, sock, sendq, received, req, calls,
          clock, next_id

vars == <<sensors, events, risk_assessments, active, sock, sendq, received, req, calls,
          clock, next_id>>

\* ---------------------------------------------------------------- bounds
\* Calls of the handlers that write (trigger, reset, assessment) made in one
\* behaviour.
MaxCalls == 2
\* Handlers in flight at the same time (request slots).
MaxReqs == 2
\* WebSocket handles that exist.
MaxViewers == 2
\* Last value of the wall clock (datetime.utcnow()).
MaxClock == 1
\* Fragments concatenated into an event_text of ClassifySpec.
MaxFrags == 2
\* Largest limit GET /events is called with.
MaxLimit == 3

Reqs == 1..MaxReqs
Viewers == 1..MaxViewers

\* ---------------------------------------------------------------- strings
\* A Python str is a sequence of one-character strings.
UpperCase == <<"A","B","C","D","E","F","G","H","I","J","K","L","M",
               "N","O","P","Q","R","S","T","U","V","W","X","Y","Z">>
LowerCase == <<"a","b","c","d","e","f","g","h","i","j","k","l","m",
               "n","o","p","q","r","s","t","u","v","w","x","y","z">>

\* str.lower() on one character.
LowerChar(c) ==
    IF \E k \in 1..Len(UpperCase) : UpperCase[k] = c
    THEN LowerCase[CHOOSE k \in 1..Len(UpperCase) : UpperCase[k] = c]
    ELSE c

\* event_text.lower()
Lower(s) == [k \in 1..Len(s) |-> LowerChar(s[k])]

\* s[k:].startswith(sub), compared character by character.
RECURSIVE StartsWithAt(_, _, _, _)
StartsWithAt(sub, s, k, j) ==
    IF j > Len(sub) THEN TRUE
    ELSE IF k + j - 1 > Len(s) THEN FALSE
    ELSE IF s[k + j - 1] # sub[j] THEN FALSE
    ELSE StartsWithAt(sub, s, k, j + 1)

\* The scan of the Python expression  sub in s.
RECURSIVE FindFrom(_, _, _)
FindFrom(sub, s, k) ==
    IF k + Len(sub) - 1 > Len(s) THEN FALSE
    ELSE IF StartsWithAt(sub, s, k, 1) THEN TRUE
    ELSE FindFrom(sub, s, k + 1)

In(sub, s) == FindFrom(sub, s, 1)

kw_break == <<"b","r","e","a","k">>
kw_force == <<"f","o","r","c","e">>
kw_critical == <<"c","r","i","t","i","c","a","l">>
kw_tamper == <<"t","a","m","p","e","r">>
kw_warn == <<"w","a","r","n">>

\* manual_trigger, the classification of event_text when active.
ClassifyWarnFirst(event_text) ==
    LET txt == Lower(event_text) IN
    IF In(kw_tamper, txt) \/ In(kw_warn, txt) THEN 2
    ELSE IF In(kw_break, txt) \/ In(kw_force, txt) \/ In(kw_critical, txt) THEN 3
    ELSE 1

Classify(event_text) ==
    LET txt == Lower(event_text) IN
    IF In(kw_break, txt) \/ In(kw_force, txt) \/ In(kw_critical, txt) THEN 3
    ELSE IF In(kw_tamper, txt) \/ In(kw_warn, txt) THEN 2
    ELSE 1

\* trigger_level as manual_trigger computes it before its first await.
TriggerLevelIgnoresActive(is_active, event_text) == Classify(event_text)

TriggerLevel(is_active, event_text) == IF is_active THEN Classify(event_text) ELSE 0

\* severity = "critical" if trigger_level == 3 else ("warn" if trigger_level == 2 else "info")
SeverityShifted(trigger_level) ==
    IF trigger_level >= 2 THEN "critical"
    ELSE IF trigger_level = 1 THEN "warn" ELSE "info"

Severity(trigger_level) ==
    IF trigger_level = 3 THEN "critical"
    ELSE IF trigger_level = 2 THEN "warn" ELSE "info"

\* ---------------------------------------------------------------- tables
\* The rows startup() seeds; a row's key stands for its uuid4 id.
Seed == << [name |-> "Front Door", type |-> "door"],
           [name |-> "Kitchen Window", type |-> "window"],
           [name |-> "Living Room Motion", type |-> "motion"],
           [name |-> "Backyard Camera", type |-> "camera"] >>

SensorIds == 1..Len(Seed)

\* An id that is the key of no row.
UnknownId == 0

\* The sensor_id path parameters the requests are made with.
InputIds == {1, 2, UnknownId}

\* sensors.update().where(sensors.c.id == sensor_id).values(is_triggered=level)
UpdateAdds(tbl, sensor_id, level) ==
    [k \in DOMAIN tbl |->
        IF k = sensor_id THEN [tbl[k] EXCEPT !.is_triggered = @ + level] ELSE tbl[k]]

UpdateSensor(tbl, sensor_id, level) ==
    [k \in DOMAIN tbl |->
        IF k = sensor_id THEN [tbl[k] EXCEPT !.is_triggered = level] ELSE tbl[k]]

\* db.fetch_one(select([sensors]).where(sensors.c.id == sensor_id)): a row or None.
NoRow == [name |-> "None", type |-> "None", is_triggered |-> 0]

FetchOne(tbl, sensor_id) == IF sensor_id \in DOMAIN tbl THEN tbl[sensor_id] ELSE NoRow

\* json.dumps(payload): the text stored in the payload column, not the dict.
JsonDumps(payload) == [json |-> payload]

\* The payload dict manual_trigger passes to log_event.
Payload(row, event_text) == [sensor |-> row.name, msg |-> event_text]

\* The message log_event hands to manager.broadcast.
MessageWithoutLevel(level, source, payload) ==
    [type |-> "event", event |-> [level |-> "info", source |-> source, payload |-> payload]]

Message(level, source, payload) ==
    [type |-> "event", event |-> [level |-> level, source |-> source, payload |-> payload]]

\* ---------------------------------------------------------------- ConnectionManager
\* list.remove(ws) under  if ws in self.active.
RECURSIVE Remove(_, _)
Remove(list, ws) ==
    IF list = <<>> THEN <<>>
    ELSE IF Head(list) = ws THEN Tail(list)
    ELSE <<Head(list)>> \o Remove(Tail(list), ws)

DisconnectNothing(list, ws) == list

DisconnectAll(list, ws) == <<>>

Disconnect(list, ws) == IF \E k \in 1..Len(list) : list[k] = ws THEN Remove(list, ws) ELSE list

Elems(list) == {list[k] : k \in 1..Len(list)}

\* ---------------------------------------------------------------- requests
NoPayload == [sensor |-> "", msg |-> <<>>]
NoEvent == [id |-> 0, timestamp |-> 0, level |-> "", source |-> "",
            payload |-> JsonDumps(NoPayload)]
NoMessage == Message("", "", NoPayload)

\* A request slot that holds no call.
Idle == [pc |-> "idle", op |-> "", sensor_id |-> UnknownId, active |-> FALSE,
         event_text |-> <<>>, trigger_level |-> 0, ev |-> NoEvent, message |-> NoMessage,
         conns |-> <<>>, i |-> 0, call_no |-> 0, delivered |-> <<>>, failed |-> {},
         status |-> "", level |-> 0, limit |-> 0, rows |-> <<>>, score |-> 0]

InFlight(r) == req[r].pc \notin {"idle", "done"}

\* The slot a new call takes: the first one that holds no call in flight.
Free(r) == ~InFlight(r) /\ \A q \in Reqs : q < r => InFlight(q)

\* The event_text values the requests of Spec are made with.
EventTexts == { <<"F","o","r","c","e","d">>,
                <<"w","a","r","n"," ","n","o","w">>,
                <<"h","e","l","l","o">> }

Init ==
    /\ sensors = [k \in SensorIds |->
                    [name |-> Seed[k].name, type |-> Seed[k].type, is_triggered |-> 0]]
    /\ events = <<>>
    /\ risk_assessments = <<>>
    /\ active = <<>>
    /\ sock = [v \in Viewers |-> "new"]
    /\ sendq = [v \in Viewers |-> <<>>]
    /\ received = [v \in Viewers |-> <<>>]
    /\ req = [r \in Reqs |-> Idle]
    /\ calls = 0
    /\ clock = 0
    /\ next_id = 1

\* ---------------------------------------------------------------- manual_trigger
\* return {"status": "updated", "level": trigger_level}
Returned(q) == [q EXCEPT !.pc = "done", !.status = "updated", !.level = q.trigger_level]

\* An exception that leaves the handler: the framework answers 500.
Raised(q, exc) == [q EXCEPT !.pc = "done", !.status = exc]

\* The locals of manual_trigger when the UPDATE of line 217 has run: an inactive
\* trigger returns, an active one has handed the SELECT to db.fetch_one.
Updated(sensor_id, is_active, event_text) ==
    LET q == [Idle EXCEPT !.op = "trigger", !.sensor_id = sensor_id, !.active = is_active,
                          !.event_text = event_text,
                          !.trigger_level = TriggerLevel(is_active, event_text)]
    IN  IF is_active THEN [q EXCEPT !.pc = "fetch"] ELSE Returned(q)

\* POST /sensors/{sensor_id}/trigger, from the call to the point where the
\* UPDATE has run.  Nothing the handler does before it touches shared state,
\* so the call and the UPDATE are one step.
TriggerWith(r, texts) ==
    /\ Free(r)
    /\ calls < MaxCalls
    /\ \E sensor_id \in InputIds, is_active \in BOOLEAN, event_text \in texts :
          /\ sensors' = UpdateSensor(sensors, sensor_id, TriggerLevel(is_active, event_text))
          /\ req' = [req EXCEPT ![r] = Updated(sensor_id, is_active, event_text)]
    /\ calls' = calls + 1
    /\ UNCHANGED <<events, active, sock, sendq, received, clock, next_id, risk_assessments>>

Trigger(r) == TriggerWith(r, EventTexts)

\* log_event up to its await: ev_id and now are taken, the INSERT is handed over.
NewEventCountsRows(level, source, payload, now) ==
    [id |-> Len(events) + 1, timestamp |-> now, level |-> level, source |-> source,
     payload |-> JsonDumps(payload)]

NewEvent(level, source, payload, now) ==
    [id |-> next_id, timestamp |-> now, level |-> level, source |-> source,
     payload |-> JsonDumps(payload)]

\* The SELECT of line 220 answers.  s["name"] on None raises TypeError; on a
\* row the handler goes on into log_event.
LogEvent(q, level, source, payload, now) ==
    [q EXCEPT !.pc = "insert",
              !.ev = NewEvent(level, source, payload, now),
              !.message = Message(level, source, payload)]

FetchedLogsAnyway(q, s, now) ==
    LogEvent(q, Severity(q.trigger_level), "manual.trigger", Payload(s, q.event_text), now)

Fetched(q, s, now) ==
    IF s = NoRow THEN Raised(q, "TypeError")
    ELSE LogEvent(q, Severity(q.trigger_level), "manual.trigger",
                  Payload(s, q.event_text), now)

\* datetime.utcnow() is read when log_event starts; the clock has moved on
\* since the last reading, or has not.
DoFetch(r) ==
    /\ req[r].pc = "fetch"
    /\ \E now \in clock..MaxClock :
          /\ req' = [req EXCEPT ![r] =
                       Fetched(req[r], FetchOne(sensors, req[r].sensor_id), now)]
          /\ clock' = IF req'[r].pc = "insert" THEN now ELSE clock
    /\ next_id' = IF req'[r].pc = "insert" THEN next_id + 1 ELSE next_id
    /\ UNCHANGED <<sensors, events, active, sock, sendq, received, calls, risk_assessments>>

\* ---------------------------------------------------------------- broadcast
\* The send_text the broadcast is suspended in, if any: its connection.
Conn(q) == q.conns[q.i]

\* The for loop after one send_text: the next connection, or the end of
\* broadcast, of log_event and of manual_trigger.
Advance(q) == IF q.i < Len(q.conns) THEN [q EXCEPT !.i = q.i + 1] ELSE Returned(q)

\* for conn in list(self.active): the snapshot, and the first send_text.
StartBroadcast(q, list, n) ==
    IF list = <<>> THEN Returned([q EXCEPT !.call_no = n])
    ELSE [q EXCEPT !.pc = "send", !.conns = list, !.i = 1, !.call_no = n]

\* try: await conn.send_text(...) went through.
SendOk(q) == Advance([q EXCEPT !.delivered = Append(@, Conn(q))])

\* except: self.disconnect(conn), and the loop goes on.
SendFailedRaises(q) == Raised([q EXCEPT !.failed = @ \cup {Conn(q)}], "WebSocketDisconnect")

SendFailed(q) == Advance([q EXCEPT !.failed = @ \cup {Conn(q)}])

\* The send queues after request r moved from q to p: r leaves the queue of the
\* connection it was suspended on and joins that of the one it now sends to.
Requeue(queues, r, q, p) ==
    [v \in Viewers |->
        LET left == IF q.pc = "send" /\ Conn(q) = v THEN Tail(queues[v]) ELSE queues[v]
        IN  IF p.pc = "send" /\ Conn(p) = v THEN Append(left, r) ELSE left]

\* The INSERT of line 133 runs; log_event then calls manager.broadcast, which
\* runs up to its first send_text.
DoInsert(r) ==
    /\ req[r].pc = "insert"
    /\ events' = Append(events, req[r].ev)
    /\ req' = [req EXCEPT ![r] = StartBroadcast(req[r], active, Len(events) + 1)]
    /\ sendq' = Requeue(sendq, r, req[r], req'[r])
    /\ UNCHANGED <<sensors, active, sock, received, calls, clock, next_id, risk_assessments>>

\* One send_text of broadcast completes: the text reaches an open socket, or
\* the send raises on a closed one and the connection is dropped.  Sends on
\* one socket complete in the order they were made.  When a send completes is
\* up to the peer: until this step the broadcast stays suspended in it.
SendComplete(r) ==
    /\ req[r].pc = "send"
    /\ LET c == Conn(req[r]) IN
        /\ Head(sendq[c]) = r
        /\ \/ /\ sock[c] = "open"
              /\ received' = [received EXCEPT ![c] =
                                Append(@, [message |-> req[r].message,
                                           call_no |-> req[r].call_no])]
              /\ req' = [req EXCEPT ![r] = SendOk(req[r])]
              /\ active' = active
           \/ /\ sock[c] = "closed"
              /\ active' = Disconnect(active, c)
              /\ req' = [req EXCEPT ![r] = SendFailed(req[r])]
              /\ received' = received
    /\ sendq' = Requeue(sendq, r, req[r], req'[r])
    /\ UNCHANGED <<sensors, events, sock, calls, clock, next_id, risk_assessments>>

\* ---------------------------------------------------------------- reset_sensor
\* sensors.update().where(sensors.c.id == sensor_id).values(is_triggered=0)
ResetRowOfNone(tbl, sensor_id) == tbl

ResetRow(tbl, sensor_id) == UpdateSensor(tbl, sensor_id, 0)

\* POST /sensors/{sensor_id}/reset: the UPDATE of line 228 runs and the handler
\* returns {"status": "reset"}.
Reset(r) ==
    /\ Free(r)
    /\ calls < MaxCalls
    /\ \E sensor_id \in InputIds :
          /\ sensors' = ResetRow(sensors, sensor_id)
          /\ req' = [req EXCEPT ![r] =
                       [Idle EXCEPT !.pc = "done", !.op = "reset", !.sensor_id = sensor_id,
                                    !.status = "reset"]]
    /\ calls' = calls + 1
    /\ UNCHANGED <<events, active, sock, sendq, received, clock, next_id, risk_assessments>>

\* ---------------------------------------------------------------- get_events
\* The orders of 1..n.
Perms(n) == {p \in [1..n -> 1..n] : \A i, j \in 1..n : i # j => p[i] # p[j]}

\* select([events]).order_by(events.c.timestamp.desc()): the rows by
\* non-increasing timestamp.  The statement names no second sort key, so rows
\* of equal timestamp come in whatever order the database produces.
OrderByTimestampDesc(tbl) ==
    { [k \in 1..Len(tbl) |-> tbl[p[k]]] :
        p \in {o \in Perms(Len(tbl)) :
                 \A k \in 1..(Len(tbl) - 1) : tbl[o[k]].timestamp >= tbl[o[k + 1]].timestamp} }

\* .limit(limit)
LimitKeepsAll(rows, limit) == rows

Limit(rows, limit) == SubSeq(rows, 1, IF limit < Len(rows) THEN limit ELSE Len(rows))

\* The payload column holds the text json.dumps wrote.
IsStr(v) == DOMAIN v = {"json"}

\* EventOut.payload: Optional[Dict[str, Any]] takes a dict or None, not a str.
EventOut(row) == ~IsStr(row.payload)

\* response_model=List[EventOut]: the rows are validated before they are sent;
\* a row that does not validate makes the framework answer 500.
Responded(q) ==
    IF \A k \in 1..Len(q.rows) : EventOut(q.rows[k])
    THEN [q EXCEPT !.pc = "done", !.status = "ok"]
    ELSE Raised(q, "ResponseValidationError")

Limits == 1..MaxLimit

\* GET /events?limit=: the SELECT runs and the handler returns its rows.
GetEvents(r) ==
    /\ Free(r)
    /\ \E limit \in Limits, sorted \in OrderByTimestampDesc(events) :
          req' = [req EXCEPT ![r] =
                    Responded([Idle EXCEPT !.op = "events", !.limit = limit,
                                           !.rows = Limit(sorted, limit)])]
    /\ UNCHANGED <<sensors, events, risk_assessments, active, sock, sendq, received,
                   calls, clock, next_id>>

\* ---------------------------------------------------------------- save_assessment
\* risk = "Safe" if data.score >= 80 else "Risk"
RiskLevelAbove(score) == IF score > 80 THEN "Safe" ELSE "Risk"

RiskLevel(score) == IF score >= 80 THEN "Safe" ELSE "Risk"

\* The scores and the details POST /assessment is called with.
Scores == {-1, 79, 80, 81}

Details == [windows |-> "locked"]

\* POST /assessment: the INSERT runs and the handler returns {"status": "saved"}.
SaveAssessment(r) ==
    /\ Free(r)
    /\ calls < MaxCalls
    /\ \E score \in Scores, now \in clock..MaxClock :
          /\ risk_assessments' =
                Append(risk_assessments,
                       [id |-> next_id, timestamp |-> now, score |-> score,
                        risk_level |-> RiskLevel(score), details |-> JsonDumps(Details)])
          /\ req' = [req EXCEPT ![r] =
                       [Idle EXCEPT !.pc = "done", !.op = "save", !.score = score,
                                    !.status = "saved"]]
          /\ clock' = now
    /\ next_id' = next_id + 1
    /\ calls' = calls + 1
    /\ UNCHANGED <<sensors, events, active, sock, sendq, received>>

\* ---------------------------------------------------------------- viewers
\* ConnectionManager.connect: ws.accept() on a connecting socket, then append.
ConnectReplaces(ws) ==
    /\ sock[ws] = "new"
    /\ sock' = [sock EXCEPT ![ws] = "open"]
    /\ active' = <<ws>>
    /\ UNCHANGED <<sensors, events, sendq, received, req, calls, clock, next_id, risk_assessments>>

Connect(ws) ==
    /\ sock[ws] = "new"
    /\ sock' = [sock EXCEPT ![ws] = "open"]
    /\ active' = Append(active, ws)
    /\ UNCHANGED <<sensors, events, sendq, received, req, calls, clock, next_id, risk_assessments>>

\* ConnectionManager.disconnect called from outside broadcast.
DisconnectCall(ws) ==
    /\ active' = Disconnect(active, ws)
    /\ UNCHANGED <<sensors, events, sock, sendq, received, req, calls, clock, next_id, risk_assessments>>

\* A socket some send can still be made on: it is attached, or a broadcast in
\* flight holds it in its snapshot.
Watched(ws) ==
    \/ ws \in Elems(active)
    \/ \E r \in Reqs : req[r].pc = "send" /\ ws \in Elems(req[r].conns)

\* The connection closes: sends on the socket raise.
Close(ws) ==
    /\ Watched(ws)
    /\ sock[ws] = "open"
    /\ sock' = [sock EXCEPT ![ws] = "closed"]
    /\ UNCHANGED <<sensors, events, active, sendq, received, req, calls, clock, next_id, risk_assessments>>

Next ==
    \/ \E r \in Reqs : Trigger(r)
    \/ \E r \in Reqs : DoFetch(r)
    \/ \E r \in Reqs : DoInsert(r)
    \/ \E r \in Reqs : SendComplete(r)
    \/ \E r \in Reqs : Reset(r)
    \/ \E ws \in Viewers : Connect(ws)
    \/ \E ws \in Viewers : DisconnectCall(ws)
    \/ \E ws \in Viewers : Close(ws)

Spec == Init /\ [][Next]_vars

\* Every handler and every ConnectionManager call; GET /events is called as
\* long as calls of the other handlers are still to come.
HubNext ==
    \/ \E r \in Reqs : Trigger(r)
    \/ \E r \in Reqs : DoFetch(r)
    \/ \E r \in Reqs : DoInsert(r)
    \/ \E r \in Reqs : SendComplete(r)
    \/ \E r \in Reqs : Reset(r)
    \/ \E r \in Reqs : calls < MaxCalls /\ GetEvents(r)
    \/ \E r \in Reqs : SaveAssessment(r)
    \/ \E ws \in Viewers : Connect(ws)
    \/ \E ws \in Viewers : DisconnectCall(ws)
    \/ \E ws \in Viewers : Close(ws)

HubSpec == Init /\ [][HubNext]_vars

\* ---------------------------------------------------------------- the event store read
\* Triggers that run side by side with no viewer attached, and GET /events
\* called at any moment, any number of times.
RecentNext ==
    \/ \E r \in Reqs : Trigger(r)
    \/ \E r \in Reqs : DoFetch(r)
    \/ \E r \in Reqs : DoInsert(r)
    \/ \E r \in Reqs : GetEvents(r)

RecentSpec == Init /\ [][RecentNext]_vars

\* ---------------------------------------------------------------- one call at a time
NoneInFlight == \A r \in Reqs : ~InFlight(r)

\* The handlers called one after the other: a call is made when the one
\* before it has returned.
SeqNext ==
    \/ \E r \in Reqs : NoneInFlight /\ Trigger(r)
    \/ \E r \in Reqs : DoFetch(r)
    \/ \E r \in Reqs : DoInsert(r)
    \/ \E r \in Reqs : SendComplete(r)
    \/ \E r \in Reqs : NoneInFlight /\ Reset(r)
    \/ \E ws \in Viewers : Connect(ws)
    \/ \E ws \in Viewers : DisconnectCall(ws)
    \/ \E ws \in Viewers : Close(ws)

SeqSpec == Init /\ [][SeqNext]_vars

\* ---------------------------------------------------------------- classification inputs
\* Pieces of event_text: the keywords in several cases, halves of keywords
\* that join into one, and words that hold none.
Frags == { <<"b","r","e","a","k">>, <<"F","O","R","C","E">>,
           <<"C","r","i","t","i","c","a","l">>, <<"T","a","m","p","e","r">>,
           <<"W","A","R","N">>, <<"w","a">>, <<"r","n">>, <<"b","r","e">>, <<"a","k">>,
           <<"f","o","r","k"," ">>, <<"h","i"," ">> }

RECURSIVE TextsOf(_)
TextsOf(n) ==
    IF n = 0 THEN {<<>>}
    ELSE TextsOf(n - 1) \cup {t \o f : t \in TextsOf(n - 1), f \in Frags}

AllTexts == TextsOf(MaxFrags)

\* A single manual_trigger call with any of AllTexts as its event_text, run
\* to its return.
ClassifyNext ==
    \/ \E r \in Reqs : calls = 0 /\ TriggerWith(r, AllTexts)
    \/ \E r \in Reqs : DoFetch(r)
    \/ \E r \in Reqs : DoInsert(r)

ClassifySpec == Init /\ [][ClassifyNext]_vars

\* ================================================================ claims
\* What the claims say of a text, stated without the code's operators.
SameLetter(a, b) ==
    a = b \/ \E k \in 1..Len(UpperCase) : {a, b} = {UpperCase[k], LowerCase[k]}

\* kw occurs in t as a substring, letter case ignored.
Occurs(kw, t) ==
    \E p \in 0..(Len(t) - Len(kw)) : \A j \in 1..Len(kw) : SameLetter(t[p + j], kw[j])

HasCritical(t) ==
    \/ Occurs(<<"b","r","e","a","k">>, t)
    \/ Occurs(<<"f","o","r","c","e">>, t)
    \/ Occurs(<<"c","r","i","t","i","c","a","l">>, t)

HasWarning(t) == Occurs(<<"t","a","m","p","e","r">>, t) \/ Occurs(<<"w","a","r","n">>, t)

ExpectedLevel(t) == IF HasCritical(t) THEN 3 ELSE IF HasWarning(t) THEN 2 ELSE 1

LevelName(n) == IF n = 3 THEN "critical" ELSE IF n = 2 THEN "warn" ELSE "info"

Known(q) == q.sensor_id \in SensorIds

\* An active trigger on a known sensor that has ended.
ActiveDone(r) ==
    req[r].pc = "done" /\ req[r].op = "trigger" /\ req[r].active /\ Known(req[r])

\* The step that makes a call in slot r, and any step of the call in slot r.
CallStep(r) == calls' = calls + 1 /\ Free(r)
StepOf(r) == CallStep(r) \/ (InFlight(r) /\ req'[r] # req[r])

\* C1: an active trigger on a known sensor returns level 3 if its text holds
\* "break", "force" or "critical" in any letter case, else 2 if it holds
\* "tamper" or "warn", else 1.
C1_ClassifiedLevelReturned ==
    \A r \in Reqs :
        ActiveDone(r) =>
            /\ req[r].status = "updated"
            /\ req[r].level = ExpectedLevel(req[r].event_text)

\* A text in upper case with a Warning and a Critical keyword was answered 3.
C1_Witness ==
    \E r \in Reqs :
        /\ ActiveDone(r)
        /\ HasCritical(req[r].event_text) /\ HasWarning(req[r].event_text)
        /\ req[r].event_text # Lower(req[r].event_text)
        /\ req[r].level = 3

\* C2: with the calls made one at a time, when an active trigger on a known
\* sensor s has returned, s is at the classified level and the event stored
\* last, which no event is newer than, has source "manual.trigger", the
\* payload {sensor: name of s, msg: text} and the level named after the
\* classified level.
C2_RegistryAndNewestEvent ==
    \A r \in Reqs :
        ActiveDone(r) =>
            LET s == req[r].sensor_id
                lvl == ExpectedLevel(req[r].event_text)
            IN  /\ sensors[s].is_triggered = lvl
                /\ events # <<>>
                /\ LET e == events[Len(events)]
                   IN  /\ e.source = "manual.trigger"
                       /\ e.payload = JsonDumps([sensor |-> Seed[s].name,
                                                 msg |-> req[r].event_text])
                       /\ e.level = LevelName(lvl)
                       /\ \A k \in 1..Len(events) : events[k].timestamp <= e.timestamp

\* A Warning trigger returned after an event of another level was stored.
C2_Witness ==
    \E r \in Reqs :
        /\ ActiveDone(r)
        /\ req[r].level = 2
        /\ Len(events) = 2
        /\ events[1].level # "warn"
        /\ events[2].level = "warn"

\* C3: a trigger or a reset of a sensor_id that is no row of the registry ends
\* in NotFound: not in "updated", not in "reset", not in another error.
C3_UnknownSensorNotFound ==
    \A r \in Reqs :
        (req[r].pc = "done" /\ ~Known(req[r])) => req[r].status = "NotFound"

\* C4: no step of a trigger on an unknown sensor_id appends an event, starts
\* a send to a viewer, delivers a message or changes a row of the registry.
C4_UnknownTriggerChangesNothing ==
    [][\A r \in Reqs :
          (StepOf(r) /\ req'[r].op = "trigger" /\ ~Known(req'[r])) =>
              /\ events' = events
              /\ sendq' = sendq
              /\ received' = received
              /\ sensors' = sensors
              /\ req'[r].pc \in {"fetch", "done"}]_vars

\* An active trigger on an unknown id ended with an event stored and a viewer
\* attached.
C4_Witness ==
    \E r \in Reqs :
        /\ req[r].pc = "done" /\ req[r].op = "trigger" /\ req[r].active
        /\ ~Known(req[r])
        /\ events # <<>>
        /\ active # <<>>

\* C5: a reset of a known sensor s leaves s at 0, appends no event and sends
\* nothing to a viewer.
C5_ResetIsSilent ==
    [][\A r \in Reqs :
          (CallStep(r) /\ req'[r].op = "reset" /\ Known(req'[r])) =>
              /\ sensors'[req'[r].sensor_id].is_triggered = 0
              /\ events' = events
              /\ sendq' = sendq
              /\ received' = received
              /\ req'[r].pc = "done" /\ req'[r].status = "reset"]_vars

\* A sensor a Critical trigger, still in its broadcast, had put at 3 was reset.
C5_Witness ==
    \E r, t \in Reqs :
        /\ req[t].op = "trigger" /\ req[t].pc = "send" /\ req[t].trigger_level = 3
        /\ req[r].op = "reset" /\ req[r].pc = "done"
        /\ req[r].sensor_id = req[t].sensor_id
        /\ sensors[req[r].sensor_id].is_triggered = 0

\* The change a reset of sensor s makes to the registry, the event store and
\* the viewers.
ResetEffect(s) ==
    /\ sensors' = [sensors EXCEPT ![s].is_triggered = 0]
    /\ events' = events
    /\ active' = active
    /\ sendq' = sendq
    /\ received' = received

\* C6: an inactive trigger on a known sensor s, whatever its text, changes
\* what a reset of s changes: s goes to 0, no event, no send; and it returns
\* level 0.
C6_InactiveTriggerIsReset ==
    [][\A r \in Reqs :
          (CallStep(r) /\ Known(req'[r])) =>
              /\ (req'[r].op = "reset" => ResetEffect(req'[r].sensor_id))
              /\ (req'[r].op = "trigger" /\ ~req'[r].active =>
                    /\ ResetEffect(req'[r].sensor_id)
                    /\ req'[r].pc = "done"
                    /\ req'[r].status = "updated"
                    /\ req'[r].level = 0)]_vars

\* An inactive trigger with a Critical keyword in its text ran on a sensor a
\* Critical trigger, still in its broadcast, had put at 3.
C6_Witness ==
    \E r, t \in Reqs :
        /\ req[t].op = "trigger" /\ req[t].pc = "send" /\ req[t].trigger_level = 3
        /\ req[r].op = "trigger" /\ ~req[r].active /\ req[r].pc = "done"
        /\ HasCritical(req[r].event_text)
        /\ req[r].sensor_id = req[t].sensor_id
        /\ sensors[req[r].sensor_id].is_triggered = 0
        /\ req[r].level = 0

\* How often x is in seq, and how many messages of broadcast n viewer v got.
Count(seq, x) == Cardinality({k \in 1..Len(seq) : seq[k] = x})
Copies(v, n) == Cardinality({k \in 1..Len(received[v]) : received[v][k].call_no = n})

\* A broadcast that has ended.
BroadcastDone(r) == req[r].pc = "done" /\ req[r].call_no > 0

\* C7, at the end of a broadcast: every viewer of its snapshot either got the
\* message once, or its send failed, it got nothing and it is not attached.
C7_EachViewerOnceOrPruned ==
    \A r \in Reqs :
        BroadcastDone(r) =>
            \A v \in Elems(req[r].conns) :
                \/ /\ v \notin req[r].failed
                   /\ Count(req[r].delivered, v) = 1
                   /\ Copies(v, req[r].call_no) = 1
                   /\ \A k \in 1..Len(received[v]) :
                         received[v][k].call_no = req[r].call_no
                             => received[v][k].message = req[r].message
                \/ /\ v \in req[r].failed
                   /\ Count(req[r].delivered, v) = 0
                   /\ Copies(v, req[r].call_no) = 0
                   /\ v \notin Elems(active)

\* C7, at each send: a send that fails takes its viewer, and no other, out
\* of the attached set; a send that goes through leaves the set as it is.
C7_OnlyFailedPruned ==
    \A r \in Reqs :
        (req[r].pc = "send" /\ req'[r] # req[r]) =>
            IF req'[r].failed # req[r].failed
            THEN Elems(active') = Elems(active) \ {Conn(req[r])}
            ELSE active' = active

\* C7: one broadcast delivers once to every viewer whose send does not fail,
\* detaches every viewer whose send fails, and detaches no other.
C7_BroadcastFanout == []C7_EachViewerOnceOrPruned /\ [][C7_OnlyFailedPruned]_vars

\* A broadcast ended whose first send failed and whose second went through.
C7_Witness ==
    \E r \in Reqs :
        /\ BroadcastDone(r)
        /\ Len(req[r].conns) = 2
        /\ req[r].failed = {req[r].conns[1]}
        /\ req[r].delivered = <<req[r].conns[2]>>
        /\ req[r].conns[2] \in Elems(active)

\* C8: whatever sends fail, broadcast returns: an active trigger on a known
\* sensor that has ended has returned its level, and its event is stored.
C8_BroadcastNeverRaises ==
    \A r \in Reqs :
        ActiveDone(r) =>
            /\ req[r].status = "updated"
            /\ req[r].level = ExpectedLevel(req[r].event_text)
            /\ \E k \in 1..Len(events) : events[k] = req[r].ev

\* A trigger returned from a broadcast all of whose sends failed.
C8_Witness ==
    \E r \in Reqs :
        /\ ActiveDone(r)
        /\ Len(req[r].conns) = 2
        /\ req[r].failed = Elems(req[r].conns)
        /\ req[r].status = "updated"

\* C9: an attached viewer gets the messages of the broadcasts in the order
\* the broadcasts were called.
C9_PerViewerCallOrder ==
    \A v \in Elems(active) :
        \A j, k \in 1..Len(received[v]) :
            j < k => received[v][j].call_no < received[v][k].call_no

\* C10: a trigger does not wait on a viewer: it is never suspended in a send
\* to a viewer, where only the completion of that send lets it return.
C10_TriggerNeverWaitsOnViewer == \A r \in Reqs : req[r].pc # "send"

\* ---------------------------------------------------------------- recent
Min(a, b) == IF a < b THEN a ELSE b

NonIncreasing(rows) ==
    \A k \in 1..(Len(rows) - 1) : rows[k].timestamp >= rows[k + 1].timestamp

\* rows holds events of tbl, each once.
FromStore(rows, tbl) ==
    /\ \A j \in 1..Len(rows) : \E k \in 1..Len(tbl) : tbl[k] = rows[j]
    /\ \A i, j \in 1..Len(rows) : i # j => rows[i].id # rows[j].id

\* No event that rows leaves out is later than one it holds.
Latest(rows, tbl) ==
    \A k \in 1..Len(tbl) :
        (\A j \in 1..Len(rows) : rows[j].id # tbl[k].id)
            => \A j \in 1..Len(rows) : tbl[k].timestamp <= rows[j].timestamp

\* What the SELECT of a recent(limit) call made in this step has produced.
RecentRows(r) ==
    LET rows == req'[r].rows IN
    /\ Len(rows) = Min(req'[r].limit, Len(events))
    /\ FromStore(rows, events)
    /\ Latest(rows, events)
    /\ NonIncreasing(rows)

RecentCall(r) == Free(r) /\ req'[r] # req[r] /\ req'[r].op = "events"

\* C11: recent(limit=N) with N positive returns min(N, number of stored
\* events) events; they are the N events with the latest timestamps, in
\* non-increasing timestamp order.
C11_RecentReturnsLatest ==
    [][\A r \in Reqs :
          RecentCall(r) => req'[r].limit > 0 /\ req'[r].status = "ok" /\ RecentRows(r)]_vars

\* The rows the SELECT yields are the latest ones, in order, whatever becomes
\* of the response.
RecentQuerySorted == [][\A r \in Reqs : RecentCall(r) => RecentRows(r)]_vars

\* The place of a stored event in insertion order.
Pos(tbl, e) == CHOOSE k \in 1..Len(tbl) : tbl[k].id = e.id

SameTime(a, b) == a.timestamp = b.timestamp

\* C12: events of equal timestamp come back in insertion order, the one
\* inserted later first, also when the limit cuts a group of equal timestamps:
\* the order is fixed by the store, so recent(N) repeated on an unchanged store
\* returns the same sequence.
C12_TiesByInsertionOrder ==
    [][\A r \in Reqs :
          RecentCall(r) =>
              LET rows == req'[r].rows IN
              /\ \A i, j \in 1..Len(rows) :
                    i < j /\ SameTime(rows[i], rows[j])
                        => Pos(events, rows[i]) > Pos(events, rows[j])
              /\ \A k \in 1..Len(events), j \in 1..Len(rows) :
                    /\ SameTime(events[k], rows[j])
                    /\ \A i \in 1..Len(rows) : rows[i].id # events[k].id
                    => Pos(events, rows[j]) > k]_vars

\* ---------------------------------------------------------------- detach
\* list without every occurrence of ws.
Without(list, ws) == SelectSeq(list, LAMBDA w : w # ws)

\* detach(v) called in the current state, for a handle of any history.
C13_DetachOnAnyHandle ==
    \A v \in Viewers :
        LET after == Disconnect(active, v) IN
        /\ v \notin Elems(after)
        /\ after = Without(active, v)
        /\ v \notin Elems(active) => after = active
        /\ Disconnect(after, v) = after

\* A step that changes the attached set with no send completing and no
\* socket connecting is a detach: it takes out one viewer and no other.
C13_DetachRemovesOne ==
    (active' # active /\ req' = req /\ sock' = sock)
        => \E v \in Elems(active) : active' = Without(active, v)

\* C13: detach is idempotent: after detach(v), v is not attached; detach of a
\* handle that is detached already or never was attached leaves the attached
\* set as it is; detach never removes another viewer.
C13_DetachIdempotent == []C13_DetachOnAnyHandle /\ [][C13_DetachRemovesOne]_vars

\* A viewer that was attached and whose socket is still open is not attached
\* any more, and another one still is.
C13_Witness ==
    \E v, w \in Viewers :
        /\ sock[v] = "open" /\ v \notin Elems(active)
        /\ w # v /\ w \in Elems(active)

\* ---------------------------------------------------------------- two sensors
\* The level the claims give a trigger call.
ClaimedLevel(q) == IF q.active THEN ExpectedLevel(q.event_text) ELSE 0

TriggerOn(r) == req[r].op = "trigger" /\ Known(req[r])

\* The row of a sensor changes only in the step that calls trigger or reset
\* on that sensor, and a trigger sets it to its own classified level.
C14_OnlyOwnSensor ==
    /\ \A k \in SensorIds :
          sensors'[k] # sensors[k] =>
              \E r \in Reqs : /\ CallStep(r)
                              /\ req'[r].op \in {"trigger", "reset"}
                              /\ req'[r].sensor_id = k
    /\ \A r \in Reqs :
          (CallStep(r) /\ req'[r].op = "trigger" /\ Known(req'[r])) =>
              sensors'[req'[r].sensor_id].is_triggered = ClaimedLevel(req'[r])

\* Two triggers on distinct sensors ran side by side, no other call was made,
\* and both have returned: each sensor is at the level of its own trigger.
C14_BothVisible ==
    \A r1, r2 \in Reqs :
        ( /\ r1 # r2 /\ calls = 2
          /\ TriggerOn(r1) /\ TriggerOn(r2)
          /\ req[r1].sensor_id # req[r2].sensor_id
          /\ req[r1].status = "updated" /\ req[r2].status = "updated" )
        => /\ sensors[req[r1].sensor_id].is_triggered = ClaimedLevel(req[r1])
           /\ sensors[req[r2].sensor_id].is_triggered = ClaimedLevel(req[r2])

\* Of two triggers in flight on distinct sensors, neither is held up by the
\* other: the next step of each can be taken without a step of the other.
C14_NeitherWaits ==
    \A r1, r2 \in Reqs :
        ( /\ r1 # r2
          /\ TriggerOn(r1) /\ TriggerOn(r2)
          /\ InFlight(r1) /\ InFlight(r2)
          /\ req[r1].sensor_id # req[r2].sensor_id )
        => ENABLED (DoFetch(r2) \/ DoInsert(r2) \/ SendComplete(r2))

\* C14: triggers on two distinct known sensors, run concurrently, both
\* complete and neither waits for the other; afterwards each sensor is at the
\* level its own trigger classified; a trigger or reset on one sensor never
\* changes the alert_level of another.
C14_DistinctSensorsIndependent ==
    /\ []C14_NeitherWaits
    /\ []C14_BothVisible
    /\ [][C14_OnlyOwnSensor]_vars

\* The registry half of C14 alone.
RegistryRowsIndependent == []C14_BothVisible /\ [][C14_OnlyOwnSensor]_vars

\* ---------------------------------------------------------------- save
SaveCall(r) == CallStep(r) /\ req'[r].op = "save"

\* A save call appends one assessment, which holds the score and the level
\* the score has, and reaches no viewer; nothing else adds an assessment.
C15_SaveStep ==
    /\ \A r \in Reqs :
          SaveCall(r) =>
              LET n == Len(risk_assessments)
                  a == risk_assessments'[n + 1]
              IN  /\ Len(risk_assessments') = n + 1
                  /\ SubSeq(risk_assessments', 1, n) = risk_assessments
                  /\ a.score = req'[r].score
                  /\ a.risk_level = "Safe" <=> a.score >= 80
                  /\ a.risk_level \in {"Safe", "Risk"}
                  /\ req'[r].status = "saved"
                  /\ received' = received /\ sendq' = sendq /\ events' = events
                  /\ \A q \in Reqs : q # r => req'[q] = req[q]
    /\ risk_assessments' # risk_assessments => \E r \in Reqs : SaveCall(r)

\* C15: save(score, details) stores exactly one assessment, whose risk_level
\* is "Safe" exactly when score >= 80 (80 is Safe, 79 is Risk), and broadcasts
\* nothing.
C15_SaveClassifiesAtEighty == [][C15_SaveStep]_vars

\* A score of 79 was saved as Risk and a score of 80 as Safe while a viewer
\* was attached, which received nothing.
C15_Witness ==
    /\ \E k \in 1..Len(risk_assessments) :
          risk_assessments[k].score = 79 /\ risk_assessments[k].risk_level = "Risk"
    /\ \E k \in 1..Len(risk_assessments) :
          risk_assessments[k].score = 80 /\ risk_assessments[k].risk_level = "Safe"
    /\ \E v \in Viewers : v \in Elems(active) /\ sock[v] = "open" /\ received[v] = <<>>

\* ---------------------------------------------------------------- registry
\* The registry holds the seeded sensors, each at a level of 0..3.
C16_SeededSensorsInRange ==
    /\ DOMAIN sensors = 1..4
    /\ \A k \in DOMAIN sensors :
          /\ sensors[k].name = Seed[k].name /\ sensors[k].type = Seed[k].type
          /\ sensors[k].is_triggered \in {0, 1, 2, 3}

\* Only a trigger call and a reset call change the registry.
C16_OnlyTriggerAndReset ==
    sensors' # sensors =>
        \E r \in Reqs : CallStep(r) /\ req'[r].op \in {"trigger", "reset"}

\* C16: every alert_level is one of 0, 1, 2, 3 and the sensors are the seeded
\* ones in every reachable state: no trigger, reset, broadcast, attach,
\* detach, recent or save creates or deletes a sensor, and only trigger and
\* reset change an alert_level.
C16_RegistryInvariant == []C16_SeededSensorsInRange /\ [][C16_OnlyTriggerAndReset]_vars

\* Two triggers have left two sensors at different levels above 0, another
\* sensor is at 0, a viewer is attached and recent() was called.
C16_Witness ==
    /\ \E j, k \in SensorIds :
          j # k /\ sensors[j].is_triggered = 3 /\ sensors[k].is_triggered \in {1, 2}
    /\ \E k \in SensorIds : sensors[k].is_triggered = 0
    /\ active # <<>>
    /\ \E r \in Reqs : req[r].op = "events"

\* ---------------------------------------------------------------- event store
C17_DistinctIds ==
    \A i, j \in 1..Len(events) : i # j => events[i].id # events[j].id

\* A step that changes the store adds one event behind the ones it held, and
\* a recent() call changes nothing of it.
C17_AppendOnly ==
    /\ events' # events =>
          /\ Len(events') = Len(events) + 1
          /\ SubSeq(events', 1, Len(events)) = events
    /\ \A r \in Reqs : RecentCall(r) => events' = events

\* C17: the Event Store is append-only: the events of a state are all there,
\* unchanged, in every later state, whatever trigger, reset, broadcast,
\* attach, detach, recent or save does; and no two events share an id.
C17_EventStoreAppendOnly == []C17_DistinctIds /\ [][C17_AppendOnly]_vars

\* Two events are stored, the one inserted first with the later id and the
\* later timestamp, and a viewer has been sent both.
C17_Witness ==
    /\ Len(events) = 2
    /\ events[1].timestamp > events[2].timestamp
    /\ events[1].id > events[2].id
    /\ \E v \in Viewers : Len(received[v]) = 2

\* ---------------------------------------------------------------- log and registry
\* The places of the events logged for sensor s, by the sensor name in the
\* stored payload.
EventsOf(s) == {k \in 1..Len(events) : events[k].payload.json.sensor = Seed[s].name}

Newest(s) == events[CHOOSE k \in EventsOf(s) : \A j \in EventsOf(s) : j <= k]

QuietOn(s) == \A r \in Reqs : InFlight(r) => req[r].sensor_id # s

\* C18: once every operation on a sensor s has completed, if the last write
\* to the registry row of s came from an active trigger (the row is at 1, 2
\* or 3), the event logged last for s has the level that goes with the row:
\* concurrent active triggers on s, or an active trigger and a reset, never
\* leave the registry and the newest event of s in disagreement.
C18_LogMatchesRegistry ==
    \A s \in SensorIds :
        (QuietOn(s) /\ sensors[s].is_triggered # 0) =>
            /\ EventsOf(s) # {}
            /\ Newest(s).level = LevelName(sensors[s].is_triggered)

\* ---------------------------------------------------------------- what viewers are sent
\* m has the shape {type: "event", event: {level, source, payload}}.
EventShaped(m) ==
    /\ DOMAIN m = {"type", "event"}
    /\ m.type = "event"
    /\ DOMAIN m.event = {"level", "source", "payload"}

\* The stored event e is the one message m tells of; the store holds the
\* payload as JSON text.
Tells(m, e) ==
    /\ e.level = m.event.level
    /\ e.source = m.event.source
    /\ e.payload = [json |-> m.event.payload]

\* Every message a viewer has received is event-shaped and tells of a stored
\* event; an active trigger on a known sensor that returned has appended one
\* event and started one broadcast of it.
C19_DeliveredWasStored ==
    /\ \A v \in Viewers : \A k \in 1..Len(received[v]) :
          LET m == received[v][k].message IN
          /\ EventShaped(m)
          /\ \E j \in 1..Len(events) : Tells(m, events[j])
    /\ \A r \in Reqs :
          (ActiveDone(r) /\ req[r].status = "updated") =>
              /\ Cardinality({j \in 1..Len(events) : events[j].id = req[r].ev.id}) = 1
              /\ req[r].call_no \in 1..Len(events)
              /\ events[req[r].call_no].id = req[r].ev.id
              /\ Tells(req[r].message, events[req[r].call_no])

\* The order of an active trigger: the call step writes the registry and
\* appends nothing; the event is appended in a later step of the same call,
\* before any message of it exists; a message is delivered in a still later
\* step, when its event is in the store.
C19_UpdateAppendBroadcast ==
    /\ \A r \in Reqs :
          (CallStep(r) /\ req'[r].op = "trigger") =>
              /\ events' = events /\ received' = received
              /\ Known(req'[r]) =>
                    sensors'[req'[r].sensor_id].is_triggered = req'[r].trigger_level
    /\ events' # events =>
          \E r \in Reqs :
              /\ req[r].pc = "insert" /\ req[r].call_no = 0
              /\ events' = Append(events, req[r].ev)
              /\ req'[r].call_no = Len(events')
              /\ received' = received
              /\ \A v \in Viewers : Copies(v, Len(events')) = 0
    /\ \A v \in Viewers :
          received'[v] # received[v] =>
              /\ events' = events
              /\ Len(received'[v]) = Len(received[v]) + 1
              /\ \E j \in 1..Len(events) :
                    Tells(received'[v][Len(received'[v])].message, events[j])

\* C19: every message delivered to a viewer has the shape {type: "event",
\* event: {level, source, payload}} and matches an event stored before the
\* delivery in level, source and payload; each successful active trigger on a
\* known sensor appends exactly one event and starts exactly one broadcast,
\* in the order registry update, event append, broadcast.
C19_StoredThenBroadcast == []C19_DeliveredWasStored /\ [][C19_UpdateAppendBroadcast]_vars

\* A viewer holds the critical and the warn message of two triggers that
\* have both returned.
C19_Witness ==
    \E v \in Viewers :
        /\ Len(received[v]) = 2
        /\ received[v][1].message.event.level = "critical"
        /\ received[v][2].message.event.level = "warn"
        /\ \A r \in Reqs : ActiveDone(r) /\ req[r].status = "updated"

\* ---------------------------------------------------------------- attach and detach in flight
\* The message and the number of the broadcast in slot r, as a viewer gets it.
Sent(r) == [message |-> req[r].message, call_no |-> req[r].call_no]

\* What attach, detach and the steps of a broadcast do to one another.
C20_InterleavedSteps ==
    \* a broadcast sends to the viewers attached when it is called ...
    /\ \A r \in Reqs :
          (req[r].pc = "insert" /\ req'[r] # req[r]) => req'[r].conns = active
    \* ... and keeps to them while it is in flight;
    /\ \A r \in Reqs : req[r].pc = "send" => req'[r].conns = req[r].conns
    \* a viewer gets a message only from a broadcast that holds it
    /\ \A v \in Viewers :
          received'[v] # received[v] =>
              \E r \in Reqs : /\ req[r].pc = "send" /\ Conn(req[r]) = v
                              /\ v \in Elems(req[r].conns)
                              /\ received'[v] = Append(received[v], Sent(r))
    \* a viewer leaves the attached set alone, by its own detach, which
    \* touches no broadcast, or by a send to it that failed
    /\ \A v \in Elems(active) :
          v \notin Elems(active') =>
              /\ active' = Without(active, v)
              /\ \/ req' = req /\ sendq' = sendq /\ received' = received
                 \/ \E r \in Reqs : /\ req[r].pc = "send" /\ Conn(req[r]) = v
                                    /\ sock[v] = "closed"
                                    /\ req'[r].pc \in {"send", "done"}
    \* a viewer that attaches is attached, behind the others, and touches no
    \* broadcast
    /\ \A v \in Viewers :
          (sock[v] = "new" /\ sock'[v] # "new") =>
              active' = Append(active, v) /\ req' = req /\ sendq' = sendq

\* A broadcast that has ended has tried every viewer it was called with and
\* has returned; a message a viewer holds came from a broadcast that was
\* called while the viewer was attached.
C20_EveryViewerTried ==
    /\ \A r \in Reqs :
          BroadcastDone(r) =>
              /\ Elems(req[r].conns) = Elems(req[r].delivered) \cup req[r].failed
              /\ req[r].status = "updated"
    /\ \A r \in Reqs, v \in Viewers :
          (req[r].call_no > 0 /\ Copies(v, req[r].call_no) > 0) =>
              v \in Elems(req[r].conns)

\* C20: attach, detach and broadcast interleave safely: a viewer detached
\* while a broadcast is suspended at a send gets no message of a broadcast
\* called after the detach and raises nothing in the one in flight; a viewer
\* attached meanwhile stays attached; the broadcast in flight still tries
\* every other viewer that was attached when it was called.
C20_AttachDetachInFlight == []C20_EveryViewerTried /\ [][C20_InterleavedSteps]_vars

\* A broadcast is suspended at its send to viewer v; v has been detached, its
\* socket open; w, attached after that broadcast was called, is attached and
\* has the message of a second broadcast, of which v has nothing.
C20_Witness ==
    \E r1, r2 \in Reqs, v, w \in Viewers :
        /\ v # w
        /\ req[r1].pc = "send" /\ Conn(req[r1]) = v /\ req[r1].conns = <<v>>
        /\ sock[v] = "open" /\ v \notin Elems(active)
        /\ w \in Elems(active)
        /\ BroadcastDone(r2) /\ req[r2].conns = <<w>> /\ req[r2].delivered = <<w>>
        /\ received[w] = <<Sent(r2)>>
        /\ received[v] = <<>>
====
